---- MODULE Spec2Model ----
(***************************************************************************)
(* A model of Orange/data/sql/postgre_backend.py (PostgreBackend and       *)
(* TableInfo) together with the PostgreSQL/psycopg2 behaviour its          *)
(* statements rely on, and of the k-fold cross-validation exercised by     *)
(* Orange/tests/test_evaluation.py.                                        *)
(*                                                                         *)
(* A table is [schema |-> <<[name, type], ...>>, rows |-> <<row, ...>>],   *)
(* a row being a tuple aligned with the schema.  Python's None and SQL's   *)
(* NULL are both written NULL.  A generator object returned by query() is  *)
(* a record holding its frame: no statement of the body runs before the    *)
(* first next().                                                           *)
(***************************************************************************)
EXTENDS Integers, Sequences, FiniteSets, TLC

VARIABLES
    table,        \* the table in the database (never written by the backend)
    connection,   \* self.connection: 0 before connect, 1 afterwards
    table_name,   \* self.table_name ("" before connect)
    table_info,   \* self.table_info: [fields, field_names, values]
    txn,          \* transaction state of the connection: idle / open / aborted
    nexec,        \* statements sent to the database with cursor.execute
    ncommit,      \* calls of connection.commit
    cursors,      \* cursors opened by query(): <<[result, pos], ...>>
    gens,         \* generator objects returned by query()
    calls,        \* number of stats / distributions calls made
    ret,          \* the last call that returned or raised
    cv            \* CrossValidation(table, learner).KFold(k) in progress

vars == <<table, connection, table_name, table_info, txn, nexec, ncommit,
          cursors, gens, calls, ret, cv>>

----------------------------------------------------------------------------
(* Bounds of the model *)

MaxRows == 3
MaxStatRows == 2
MaxGen == 2
MaxCalls == 1
MaxConnRows == 22
MaxCvRows == 5
MaxCvK == 3

(* None / NULL *)
NULL == -1

(* LIMIT 21 and len(values) > 20 of _get_distinct_values *)
DistinctLimit == 21
MaxDistinct == 20

(* results[6*i:6*(i+1)] of stats *)
StatsWidth == 6

----------------------------------------------------------------------------
(* Generic helpers *)

Min(a, b) == IF a < b THEN a ELSE b
Max(a, b) == IF a > b THEN a ELSE b

SetMin(S) == CHOOSE m \in S : \A e \in S : m <= e
SetMax(S) == CHOOSE m \in S : \A e \in S : m >= e

Range(s) == {s[i] : i \in 1..Len(s)}

RECURSIVE SeqSum(_)
SeqSum(s) == IF s = <<>> THEN 0 ELSE Head(s) + SeqSum(Tail(s))

(* Sequences over S of length at most n *)
SeqsUpTo(S, n) == UNION {[1..k -> S] : k \in 0..n}

(* Python's s[a:b] for 0 <= a, b *)
PySlice(s, a, b) ==
    LET lo == Min(a, Len(s))
        hi == Min(b, Len(s))
    IN  IF hi <= lo THEN <<>> ELSE SubSeq(s, lo + 1, hi)

(* ORDER BY ... ascending; PostgreSQL sorts NULL last *)
RECURSIVE SortAsc(_)
SortAsc(S) ==
    IF S = {} THEN <<>>
    ELSE IF S = {NULL} THEN <<NULL>>
    ELSE LET m == SetMin(S \ {NULL}) IN <<m>> \o SortAsc(S \ {m})

----------------------------------------------------------------------------
(* The database: what PostgreSQL answers to the statements of the backend *)

DataTypes == {"double precision", "character varying", "integer"}

(* 'double' in field_type, 'char' in field_type *)
HasDouble(field_type) == field_type \in {"double precision"}
HasChar(field_type) == field_type \in {"character varying", "character"}

ColIdx(t, name) == CHOOSE j \in 1..Len(t.schema) : t.schema[j].name = name

Column(t, name) == [i \in 1..Len(t.rows) |-> t.rows[i][ColIdx(t, name)]]

(* SELECT column_name, data_type FROM INFORMATION_SCHEMA.COLUMNS
   WHERE table_name = %s *)
InformationSchemaColumns(t, name) ==
    IF name = t.name
    THEN [j \in 1..Len(t.schema) |-> <<t.schema[j].name, t.schema[j].type>>]
    ELSE <<>>

(* SELECT DISTINCT "f" FROM "t" ORDER BY f LIMIT n: a list of 1-tuples *)
SelectDistinct(t, field_name, limit) ==
    LET sorted == SortAsc(Range(Column(t, field_name)))
        kept == PySlice(sorted, 0, limit)
    IN  [i \in 1..Len(kept) |-> <<kept[i]>>]

\* SELECT COUNT over all rows of "t"
SelectCount(t) == Len(t.rows)

(* The conditions used as filters and WHERE clauses.  A comparison with
   NULL is not true, so the row is not selected. *)
Conditions == {"x >= 2", "c = 1", "x IS NOT NULL"}

CondHolds(t, cond, row) ==
    LET x == row[ColIdx(t, "x")]
        c == row[ColIdx(t, "c")]
    IN  CASE cond = "x >= 2" -> x # NULL /\ x >= 2
          [] cond = "c = 1" -> c # NULL /\ c = 1
          [] cond = "x IS NOT NULL" -> x # NULL
          [] OTHER -> FALSE

(* The rows a sequence of conditions joined by AND selects, in table order *)
RowHolds(t, conds, row) == \A i \in 1..Len(conds) : CondHolds(t, conds[i], row)

RECURSIVE RowsWhereFrom(_, _, _)
RowsWhereFrom(t, conds, i) ==
    IF i > Len(t.rows) THEN <<>>
    ELSE (IF RowHolds(t, conds, t.rows[i]) THEN <<t.rows[i]>> ELSE <<>>)
         \o RowsWhereFrom(t, conds, i + 1)

RowsWhere(t, conds) == RowsWhereFrom(t, conds, 1)

(* The where argument of stats and distributions is SQL text appended to
   the statement *)
Wheres == {""} \cup {"WHERE x >= 2", "WHERE c = 1", "WHERE x IS NOT NULL"}

WhereConds(where) ==
    CASE where = "" -> <<>>
      [] where = "WHERE x >= 2" -> <<"x >= 2">>
      [] where = "WHERE c = 1" -> <<"c = 1">>
      [] where = "WHERE x IS NOT NULL" -> <<"x IS NOT NULL">>

----------------------------------------------------------------------------
(* connect, _get_table_info, _get_field_list, _get_field_values,
   _get_distinct_values, TableInfo *)

PyNone == [t |-> "None", v |-> <<>>]
PyTuple(s) == [t |-> "tuple", v |-> s]

(* The limit of 20 values taken as exclusive *)
DistinctValuesBelowLimit(t, field_name) ==
    LET values == SelectDistinct(t, field_name, DistinctLimit)
    IN  IF Len(values) >= MaxDistinct
        THEN PyTuple(<<>>)
        ELSE PyTuple([i \in 1..Len(values) |-> values[i][1]])

_get_distinct_values(t, field_name) ==
    LET values == SelectDistinct(t, field_name, DistinctLimit)
    IN  IF Len(values) > MaxDistinct
        THEN PyTuple(<<>>)
        ELSE PyTuple([i \in 1..Len(values) |-> values[i][1]])

_get_field_values(t, field_name, field_type) ==
    IF HasDouble(field_type) THEN PyTuple(<<>>)
    ELSE IF HasChar(field_type) THEN _get_distinct_values(t, field_name)
    ELSE PyNone

_get_field_list(t, name) ==
    LET cols == InformationSchemaColumns(t, name)
    IN  [j \in 1..Len(cols) |->
            <<cols[j][1], cols[j][2],
              _get_field_values(t, cols[j][1], cols[j][2])>>]

(* Statements _get_field_list sends: the column list and one SELECT
   DISTINCT per 'char' column that is not 'double' *)
FieldListStatements(t, name) ==
    LET cols == InformationSchemaColumns(t, name)
    IN  1 + Cardinality({j \in 1..Len(cols) :
                            ~HasDouble(cols[j][2]) /\ HasChar(cols[j][2])})

TableInfo(fields) ==
    LET names == {fields[j][1] : j \in 1..Len(fields)}
        Last(n) == SetMax({j \in 1..Len(fields) : fields[j][1] = n})
    IN  [fields |-> fields,
         field_names |-> [j \in 1..Len(fields) |-> fields[j][1]],
         values |-> [n \in names |-> fields[Last(n)][3]]]

NoTableInfo == TableInfo(<<>>)

(* The attributes a TableInfo object has: reading another one raises
   AttributeError *)
TableInfoAttrs == {"fields", "field_names", "values"}

(* What the last call did: its outcome ("return", "yield", "StopIteration"
   or the exception raised), its value, and the statement and commit counts
   when it was entered *)
Ret(op, outcome, value, args) ==
    [op |-> op, outcome |-> outcome, value |-> value, args |-> args,
     exec0 |-> nexec, commit0 |-> ncommit]

NoRet == [op |-> "none", outcome |-> "none", value |-> <<>>, args |-> <<>>,
          exec0 |-> 0, commit0 |-> 0]

(* connect; a backend is connected once *)
Connect ==
    /\ connection = 0
    /\ connection' = 1
    /\ table_name' = table.name
    /\ table_info' = TableInfo(_get_field_list(table, table.name))
    /\ nexec' = nexec + FieldListStatements(table, table.name)
    /\ ncommit' = ncommit + FieldListStatements(table, table.name)
    /\ txn' = "idle"
    /\ ret' = Ret("connect", "return", <<>>, <<>>)
    /\ UNCHANGED <<table, cursors, gens, calls, cv>>

----------------------------------------------------------------------------
(* query: the statement it builds *)

(* An attribute of the sql backend has a name and to_sql() *)
AttrX == [name |-> "x", to_sql |-> "x"]
AttrC == [name |-> "c", to_sql |-> "c"]

AttributesNone == [none |-> TRUE, items |-> <<>>]
AttributesOf(items) == [none |-> FALSE, items |-> items]

RowsNone == [kind |-> "None", start |-> NULL, stop |-> NULL, idx |-> <<>>]
RowsSlice(start, stop) ==
    [kind |-> "slice", start |-> start, stop |-> stop, idx |-> <<>>]
RowsList(idx) == [kind |-> "list", start |-> NULL, stop |-> NULL, idx |-> idx]

Star == [expr |-> "*", as |-> ""]

NoFieldsSelected == "ValueError: No fields selected."

(* The select list without the check for an empty one *)
QueryFieldsUnchecked(attributes) ==
    IF ~attributes.none
    THEN [err |-> "",
          fields |-> [i \in 1..Len(attributes.items) |->
                         [expr |-> attributes.items[i].to_sql,
                          as |-> attributes.items[i].name]]]
    ELSE [err |-> "", fields |-> <<Star>>]

(* Lines 62-72: the select list, or ValueError when attributes holds no
   attribute *)
QueryFields(attributes) ==
    IF ~attributes.none
    THEN LET fields == [i \in 1..Len(attributes.items) |->
                           [expr |-> attributes.items[i].to_sql,
                            as |-> attributes.items[i].name]]
         IN  IF fields = <<>>
             THEN [err |-> NoFieldsSelected, fields |-> <<>>]
             ELSE [err |-> "", fields |-> fields]
    ELSE [err |-> "", fields |-> <<Star>>]

(* The filters kept as given, empty ones included *)
AllFilters(filters) == filters

(* Line 75: [f for f in filters if f] *)
RECURSIVE NonEmptyFilters(_)
NonEmptyFilters(filters) ==
    IF filters = <<>> THEN <<>>
    ELSE (IF Head(filters) # "" THEN <<Head(filters)>> ELSE <<>>)
         \o NonEmptyFilters(Tail(filters))

(* Reading self.table_info.nrows: TableInfo.__init__ sets no such
   attribute *)
TableInfoNrows ==
    IF "nrows" \in TableInfoAttrs
    THEN [err |-> "", v |-> SelectCount(table)]
    ELSE [err |-> "AttributeError", v |-> 0]

(* x or y for an integer-or-None x *)
Truthy(x) == x # NULL /\ x # 0

(* The window of a list of indices taken as max - min rows and not
   max - min + 1 *)
QueryWindowShort(rows) ==
    IF rows.kind = "slice"
    THEN LET start == IF Truthy(rows.start) THEN rows.start ELSE 0
             stop == IF Truthy(rows.stop)
                     THEN [err |-> "", v |-> rows.stop]
                     ELSE TableInfoNrows
         IN  [err |-> stop.err, start |-> start, size |-> stop.v - start]
    ELSE IF rows.idx = <<>>
    THEN [err |-> "ValueError: min() arg is an empty sequence",
          start |-> 0, size |-> 0]
    ELSE LET start == SetMin(Range(rows.idx))
             stop == SetMax(Range(rows.idx))
         IN  [err |-> "", start |-> start, size |-> stop - start]

(* Lines 78-87: OFFSET and LIMIT of the row window *)
QueryWindow(rows) ==
    IF rows.kind = "slice"
    THEN LET start == IF Truthy(rows.start) THEN rows.start ELSE 0
             stop == IF Truthy(rows.stop)
                     THEN [err |-> "", v |-> rows.stop]
                     ELSE TableInfoNrows
         IN  [err |-> stop.err, start |-> start, size |-> stop.v - start]
    ELSE IF rows.idx = <<>>
    THEN [err |-> "ValueError: min() arg is an empty sequence",
          start |-> 0, size |-> 0]
    ELSE LET start == SetMin(Range(rows.idx))
             stop == SetMax(Range(rows.idx))
         IN  [err |-> "", start |-> start, size |-> stop - start + 1]

SelectClause(fields, name) ==
    [c |-> "SELECT", fields |-> fields, table |-> name, conds |-> <<>>, n |-> 0]
WhereClause(conds) ==
    [c |-> "WHERE", fields |-> <<>>, table |-> "", conds |-> conds, n |-> 0]
OffsetClause(n) ==
    [c |-> "OFFSET", fields |-> <<>>, table |-> "", conds |-> <<>>, n |-> n]
LimitClause(n) ==
    [c |-> "LIMIT", fields |-> <<>>, table |-> "", conds |-> <<>>, n |-> n]

(* Lines 76-77 *)
AppendWhere(sql, filters) ==
    IF filters # <<>> THEN sql \o <<WhereClause(filters)>> ELSE sql

(* Line 87 *)
AppendWindow(sql, start, size) == sql \o <<OffsetClause(start), LimitClause(size)>>

(* Lines 74-87: the statement as the sequence of its clauses, in the order
   the text is put together *)
QuerySql(fields, filters, rows, name) ==
    LET sql == AppendWhere(<<SelectClause(fields, name)>>, NonEmptyFilters(filters))
    IN  IF rows.kind # "None"
        THEN LET w == QueryWindow(rows)
             IN  IF w.err # ""
                 THEN [err |-> w.err, sql |-> <<>>]
                 ELSE [err |-> "", sql |-> AppendWindow(sql, w.start, w.size)]
        ELSE [err |-> "", sql |-> sql]

----------------------------------------------------------------------------
(* cursor.execute(sql) for the statement of query *)

ClauseNames(sql) == [i \in 1..Len(sql) |-> sql[i].c]

ClauseOf(sql, c) == sql[CHOOSE i \in 1..Len(sql) : sql[i].c = c]

(* SELECT ... FROM ... [WHERE ...] [OFFSET n LIMIT m]: any other order of
   the clauses is a syntax error *)
WellFormed(sql) ==
    ClauseNames(sql) \in {<<"SELECT">>, <<"SELECT", "WHERE">>,
                          <<"SELECT", "OFFSET", "LIMIT">>,
                          <<"SELECT", "WHERE", "OFFSET", "LIMIT">>}

Project(t, fields, row) ==
    IF fields = <<Star>> THEN row
    ELSE [i \in 1..Len(fields) |-> row[ColIdx(t, fields[i].expr)]]

(* The rows of the result: WHERE selects, then OFFSET skips, then LIMIT
   cuts, then the select list projects.  The table is not written, and the
   database returns its rows in the same order to every statement.  A statement with an
   empty select list or an empty condition is a syntax error, a negative
   OFFSET or LIMIT a data error. *)
Execute(t, sql) ==
    IF \/ ~WellFormed(sql)
       \/ sql[1].table # t.name
       \/ sql[1].fields = <<>>
       \/ \E i \in 1..Len(sql) : \E j \in 1..Len(sql[i].conds) :
              sql[i].conds[j] \notin Conditions
    THEN [err |-> "ProgrammingError", result |-> <<>>]
    ELSE LET names == Range(ClauseNames(sql))
             conds == IF "WHERE" \in names THEN ClauseOf(sql, "WHERE").conds ELSE <<>>
             sel == RowsWhere(t, conds)
             off == IF "OFFSET" \in names THEN ClauseOf(sql, "OFFSET").n ELSE 0
             lim == IF "LIMIT" \in names THEN ClauseOf(sql, "LIMIT").n ELSE Len(sel)
         IN  IF off < 0 \/ lim < 0
             THEN [err |-> "DataError", result |-> <<>>]
             ELSE LET win == PySlice(sel, off, off + lim)
                  IN  [err |-> "",
                       result |-> [i \in 1..Len(win) |-> Project(t, sql[1].fields, win[i])]]

(* One cursor kept on the backend and used again by every query *)
SharedCursor(cs, result) ==
    [cursors |-> IF cs = <<>> THEN <<[result |-> result, pos |-> 0]>>
                 ELSE [cs EXCEPT ![1] = [result |-> result, pos |-> 0]],
     id |-> 1]

(* self.connection.cursor(): query opens a cursor of its own *)
OpenCursor(cs, result) ==
    [cursors |-> Append(cs, [result |-> result, pos |-> 0]), id |-> Len(cs) + 1]

(* cur.fetchone(): the next row, or None after the last one *)
FetchOne(cur) ==
    IF cur.pos < Len(cur.result)
    THEN [none |-> FALSE, row |-> cur.result[cur.pos + 1],
          cur |-> [cur EXCEPT !.pos = cur.pos + 1]]
    ELSE [none |-> TRUE, row |-> <<>>, cur |-> cur]

----------------------------------------------------------------------------
(* query: the generator *)

(* A generator object: its state, the arguments and the locals sql and cur
   of its frame, the rows it has yielded, the exception that ended it, and
   whether its statement has been sent to the database *)
NoGen == [state |-> "none", attributes |-> AttributesNone, filters |-> <<>>,
          rows |-> RowsNone, sql |-> <<>>, cur |-> 0, yielded |-> <<>>,
          err |-> "", executed |-> FALSE]

(* A commit that is left out *)
CommitSkipped(n) == n

(* self.connection.commit(), counted *)
Commit(n) == n + 1

(* Calling query(...) returns a generator object: its frame holds the
   arguments and no statement of the body has run.  The backend is used
   after connect; generators are numbered in the order of their creation. *)
QueryCall(g, attributes, filters, rows) ==
    /\ connection = 1
    /\ gens[g].state = "none"
    /\ \A h \in 1..(g - 1) : gens[h].state # "none"
    /\ gens' = [gens EXCEPT ![g] =
                   [NoGen EXCEPT !.state = "created", !.attributes = attributes,
                                 !.filters = filters, !.rows = rows]]
    /\ ret' = Ret("query", "return", <<>>, g)
    /\ UNCHANGED <<table, connection, table_name, table_info, txn, nexec,
                   ncommit, cursors, calls, cv>>

(* The generator raises: it is finished, nothing is yielded *)
GenRaise(g, err, sent) ==
    /\ gens' = [gens EXCEPT ![g].state = "raised", ![g].err = err,
                             ![g].executed = sent]
    /\ nexec' = nexec + (IF sent THEN 1 ELSE 0)
    /\ txn' = IF sent THEN "aborted" ELSE txn
    /\ ret' = Ret("next", err, <<>>, g)
    /\ UNCHANGED <<ncommit, cursors>>

(* First next(): lines 62-95 up to the first yield *)
GenStart(g) ==
    LET f == QueryFields(gens[g].attributes)
        q == QuerySql(f.fields, gens[g].filters, gens[g].rows, table_name)
        x == Execute(table, q.sql)
        o == OpenCursor(cursors, x.result)
        r == FetchOne(o.cursors[o.id])
    IN  IF f.err # "" THEN GenRaise(g, f.err, FALSE)
        ELSE IF q.err # "" THEN GenRaise(g, q.err, FALSE)
        ELSE IF txn = "aborted" THEN GenRaise(g, "InternalError", TRUE)
        ELSE IF x.err # "" THEN GenRaise(g, x.err, TRUE)
        ELSE /\ nexec' = nexec + 1
             /\ ncommit' = Commit(ncommit)
             /\ txn' = "idle"
             /\ cursors' = [o.cursors EXCEPT ![o.id] = r.cur]
             /\ gens' = [gens EXCEPT
                    ![g].sql = q.sql,
                    ![g].cur = o.id,
                    ![g].executed = TRUE,
                    ![g].state = IF r.none THEN "done" ELSE "running",
                    ![g].yielded = IF r.none THEN <<>> ELSE <<r.row>>]
             /\ ret' = Ret("next", IF r.none THEN "StopIteration" ELSE "yield", r.row, g)

(* A later next(): lines 91-95 *)
GenResume(g) ==
    LET r == FetchOne(cursors[gens[g].cur])
    IN  /\ cursors' = [cursors EXCEPT ![gens[g].cur] = r.cur]
        /\ gens' = [gens EXCEPT
               ![g].state = IF r.none THEN "done" ELSE "running",
               ![g].yielded = IF r.none THEN @ ELSE Append(@, r.row)]
        /\ ret' = Ret("next", IF r.none THEN "StopIteration" ELSE "yield", r.row, g)
        /\ UNCHANGED <<txn, nexec, ncommit>>

QueryNext(g) ==
    /\ gens[g].state \in {"created", "running"}
    /\ IF gens[g].state = "created" THEN GenStart(g) ELSE GenResume(g)
    /\ UNCHANGED <<table, connection, table_name, table_info, calls, cv>>

----------------------------------------------------------------------------
(* stats *)

(* A column of stats / distributions: a variable with var_type and
   to_sql() *)
VarX == [name |-> "x", to_sql |-> "x", var_type |-> "Continuous"]
VarC == [name |-> "c", to_sql |-> "c", var_type |-> "Discrete"]
VarXD == [name |-> "x", to_sql |-> "x", var_type |-> "Discrete"]

Agg(f, column) == [f |-> f, col |-> column]

(* Lines 99-133: the six expressions of one column *)
StatsExprs(column) ==
    IF column.var_type = "Continuous"
    THEN <<Agg("MIN", column.to_sql), Agg("MAX", column.to_sql),
           Agg("AVG", column.to_sql), Agg("STDDEV", column.to_sql),
           Agg("SUM_NULL", column.to_sql), Agg("SUM_NOT_NULL", column.to_sql)>>
    ELSE <<Agg("NULL", ""), Agg("NULL", ""), Agg("NULL", ""), Agg("NULL", ""),
           Agg("SUM_NULL", column.to_sql), Agg("SUM_NOT_NULL", column.to_sql)>>

(* Line 135: ", ".join(stats) *)
RECURSIVE StatsSql(_)
StatsSql(columns) ==
    IF columns = <<>> THEN <<>>
    ELSE StatsExprs(Head(columns)) \o StatsSql(Tail(columns))

RECURSIVE NonNull(_)
NonNull(vals) ==
    IF vals = <<>> THEN <<>>
    ELSE (IF Head(vals) # NULL THEN <<Head(vals)>> ELSE <<>>) \o NonNull(Tail(vals))

Squares(vals) == [i \in 1..Len(vals) |-> vals[i] * vals[i]]

(* One aggregate over the selected rows.  An aggregate other than COUNT
   over no (non-NULL) input is NULL; SUM(CASE ...) sees one input per
   selected row.  AVG is given in hundredths, rounded down; STDDEV (the
   sample deviation, NULL for fewer than two inputs) by its square in
   hundredths, rounded down. *)
EvalAgg(t, e, sel) ==
    LET all == IF e.f = "NULL" THEN <<>>
               ELSE [i \in 1..Len(sel) |-> sel[i][ColIdx(t, e.col)]]
        vals == NonNull(all)
        n == Len(vals)
    IN  CASE e.f = "NULL" -> NULL
          [] e.f = "MIN" -> IF n = 0 THEN NULL ELSE SetMin(Range(vals))
          [] e.f = "MAX" -> IF n = 0 THEN NULL ELSE SetMax(Range(vals))
          [] e.f = "AVG" -> IF n = 0 THEN NULL ELSE (100 * SeqSum(vals)) \div n
          [] e.f = "STDDEV" ->
                IF n < 2 THEN NULL
                ELSE (100 * (n * SeqSum(Squares(vals)) - SeqSum(vals) * SeqSum(vals)))
                     \div (n * (n - 1))
          [] e.f = "SUM_NULL" -> IF Len(all) = 0 THEN NULL ELSE Len(all) - n
          [] e.f = "SUM_NOT_NULL" -> IF Len(all) = 0 THEN NULL ELSE n

(* SELECT <aggregates> FROM "t" <where>: always one row *)
SelectAggregates(t, exprs, where) ==
    LET sel == RowsWhere(t, WhereConds(where))
    IN  [i \in 1..Len(exprs) |-> EvalAgg(t, exprs[i], sel)]

(* Lines 143-144: results[6*i:6*(i+1)] *)
StatsEntry(results, i) == PySlice(results, StatsWidth * i, StatsWidth * (i + 1))

(* Lines 141-145 *)
StatsResult(columns, results) ==
    [i \in 1..Len(columns) |-> StatsEntry(results, i - 1)]

(* Lines 97-145; at most MaxCalls calls of stats and distributions *)
Stats(columns, where) ==
    /\ connection = 1
    /\ calls < MaxCalls
    /\ calls' = calls + 1
    /\ nexec' = nexec + 1
    /\ IF txn = "aborted"
       THEN /\ ret' = Ret("stats", "InternalError", <<>>, [columns |-> columns, where |-> where])
            /\ UNCHANGED <<txn, ncommit>>
       ELSE /\ ncommit' = Commit(ncommit)
            /\ txn' = "idle"
            /\ ret' = Ret("stats", "return", StatsResult(columns,
                           SelectAggregates(table, StatsSql(columns), where)), [columns |-> columns, where |-> where])
    /\ UNCHANGED <<table, connection, table_name, table_info, cursors, gens, cv>>

----------------------------------------------------------------------------
(* distributions *)

(* SELECT col, COUNT(col) FROM "t" <where> GROUP BY col ORDER BY col:
   COUNT(col) of the NULL group is 0 *)
SelectGroups(t, col, where) ==
    LET sel == RowsWhere(t, WhereConds(where))
        vals == [i \in 1..Len(sel) |-> sel[i][ColIdx(t, col)]]
        keys == SortAsc(Range(vals))
    IN  [k \in 1..Len(keys) |->
            <<keys[k],
              IF keys[k] = NULL THEN 0
              ELSE Cardinality({i \in 1..Len(vals) : vals[i] = keys[k]})>>]

(* Lines 160-164: np.array(rows) of no rows has one dimension, so
   dist[:, 1] raises IndexError *)
DistOf(col, rows) ==
    IF col.var_type = "Continuous"
    THEN [err |-> "",
          dist |-> IF rows = <<>> THEN <<>>
                   ELSE <<[k \in 1..Len(rows) |-> rows[k][1]],
                          [k \in 1..Len(rows) |-> rows[k][2]]>>]
    ELSE IF rows = <<>>
    THEN [err |-> "IndexError", dist |-> <<>>]
    ELSE [err |-> "", dist |-> [k \in 1..Len(rows) |-> rows[k][2]]]

DistAll(columns, where) ==
    [i \in 1..Len(columns) |->
        DistOf(columns[i], SelectGroups(table, columns[i].to_sql, where))]

(* The first column whose distribution raises, or 0 *)
FirstError(ds) ==
    IF \E i \in 1..Len(ds) : ds[i].err # ""
    THEN SetMin({i \in 1..Len(ds) : ds[i].err # ""})
    ELSE 0

Distributions(columns, where) ==
    LET ds == DistAll(columns, where)
        bad == FirstError(ds)
    IN  /\ connection = 1
        /\ calls < MaxCalls
        /\ calls' = calls + 1
        /\ IF txn = "aborted" /\ columns # <<>>
           THEN /\ nexec' = nexec + 1
                /\ ret' = Ret("distributions", "InternalError", <<>>, <<>>)
                /\ UNCHANGED <<txn, ncommit>>
           ELSE IF bad # 0
           THEN /\ nexec' = nexec + bad
                /\ txn' = "open"
                /\ ret' = Ret("distributions", ds[bad].err, <<>>, <<>>)
                /\ UNCHANGED ncommit
           ELSE /\ nexec' = nexec + Len(columns)
                /\ ncommit' = Commit(ncommit)
                /\ txn' = "idle"
                /\ ret' = Ret("distributions", "return", [i \in 1..Len(ds) |-> <<ds[i].dist, <<>>>>], <<>>)
        /\ UNCHANGED <<table, connection, table_name, table_info, cursors, gens, cv>>

----------------------------------------------------------------------------
(* CrossValidation(table, learner).KFold(k), as the tests use it: the rows
   are cut into k consecutive test folds, a model is fitted on the rows
   outside the fold and predicts the rows of the fold.  The learner is a
   classifier that predicts the most frequent class of its training rows
   and gives one probability (in hundredths) per value of the class
   variable of the whole table. *)

(* t.domain.class_var.values *)
ClassValues(y) == SortAsc(Range(y))

(* Folds of equal size that leave the remainder of n / k out *)
FoldSizeEqual(n, k, f) == n \div k

(* Fold f (from 0) of n rows in k folds: the first n % k folds hold one row
   more *)
FoldSize(n, k, f) == (n \div k) + (IF f < n % k THEN 1 ELSE 0)

RECURSIVE FoldStart(_, _, _)
FoldStart(n, k, f) ==
    IF f = 0 THEN 0 ELSE FoldStart(n, k, f - 1) + FoldSize(n, k, f - 1)

TestIndices(n, k, f) == (FoldStart(n, k, f) + 1)..(FoldStart(n, k, f) + FoldSize(n, k, f))

TrainIndices(n, k, f) == (1..n) \ TestIndices(n, k, f)

ClassCounts(y, train, values) ==
    [j \in 1..Len(values) |-> Cardinality({i \in train : y[i] = values[j]})]

(* The fitted model: the class counts of the training rows *)
Learner(y, train) == ClassCounts(y, train, ClassValues(y))

PredictValue(y, model) ==
    LET best == SetMax(Range(model))
    IN  ClassValues(y)[SetMin({j \in 1..Len(model) : model[j] = best})]

PredictProbs(model) ==
    LET total == SeqSum(model)
    IN  [j \in 1..Len(model) |-> (100 * model[j]) \div total]

CvIdle == [state |-> "idle", y |-> <<>>, k |-> 0, fold |-> 0,
           values |-> <<>>, probs |-> <<>>, count |-> <<>>]

KFoldCall(y, k) ==
    /\ cv.state = "idle"
    /\ 2 <= k /\ k <= Len(y)
    /\ cv' = [state |-> "running", y |-> y, k |-> k, fold |-> 0,
              values |-> [i \in 1..Len(y) |-> NULL],
              probs |-> [i \in 1..Len(y) |-> <<>>],
              count |-> [i \in 1..Len(y) |-> 0]]
    /\ UNCHANGED <<table, connection, table_name, table_info, txn, nexec,
                   ncommit, cursors, gens, calls, ret>>

(* One fold: fit on the rows outside it, predict its rows in place *)
KFoldStep ==
    /\ cv.state = "running"
    /\ LET n == Len(cv.y)
           test == TestIndices(n, cv.k, cv.fold)
           model == Learner(cv.y, TrainIndices(n, cv.k, cv.fold))
       IN  cv' = [cv EXCEPT
               !.values = [i \in 1..n |->
                   IF i \in test THEN PredictValue(cv.y, model) ELSE cv.values[i]],
               !.probs = [i \in 1..n |->
                   IF i \in test THEN PredictProbs(model) ELSE cv.probs[i]],
               !.count = [i \in 1..n |->
                   IF i \in test THEN cv.count[i] + 1 ELSE cv.count[i]],
               !.fold = cv.fold + 1,
               !.state = IF cv.fold + 1 = cv.k THEN "done" ELSE "running"]
    /\ UNCHANGED <<table, connection, table_name, table_info, txn, nexec,
                   ncommit, cursors, gens, calls, ret>>

----------------------------------------------------------------------------
(* Tables and arguments *)

Cells == {NULL, 1, 2}

Schema == <<[name |-> "x", type |-> "double precision"],
            [name |-> "c", type |-> "character varying"]>>

TableOf(schema, rows) == [name |-> "t", schema |-> schema, rows |-> rows]

(* Every table of at most MaxStatRows rows over Cells *)
SmallTables == {TableOf(Schema, r) : r \in SeqsUpTo(Cells \X Cells, MaxStatRows)}

(* Tables of up to MaxRows rows that differ in x, so that a row tells its
   position; c alternates between two values, or between a value and NULL *)
WinCell(alt, i) == IF i % 2 = 1 THEN 1 ELSE alt

WinTables ==
    {TableOf(Schema, [i \in 1..n |-> <<i, WinCell(alt, i)>>]) :
        n \in 0..MaxRows, alt \in {2, NULL}}

(* Tables whose second column has from 0 to MaxConnRows distinct values,
   of every data type, in ascending, descending or repeating order, with
   or without a NULL *)
Patterns == {"asc", "desc", "mod", "null"}

PatternCell(pattern, n, i) ==
    CASE pattern = "asc" -> i
      [] pattern = "desc" -> n + 1 - i
      [] pattern = "mod" -> 1 + (i % 3)
      [] pattern = "null" -> IF i = 1 THEN NULL ELSE i

ConnTables ==
    {TableOf(<<Schema[1], [name |-> "c", type |-> ty]>>,
             [i \in 1..n |-> <<1 + (i % 2), PatternCell(pattern, n, i)>>]) :
        n \in 0..MaxConnRows, ty \in DataTypes, pattern \in Patterns}

AttributesArgs ==
    {AttributesNone, AttributesOf(<<>>), AttributesOf(<<AttrX>>),
     AttributesOf(<<AttrC, AttrX>>)}

FiltersArgs ==
    {<<>>, <<"">>, <<"x >= 2">>, <<"", "c = 1">>, <<"c = 1", "">>,
     <<"x >= 2", "c = 1">>, <<"c = 1", "x >= 2">>}

RowsArgs ==
    {RowsNone}
    \cup {RowsSlice(a, b) : a \in {NULL} \cup (0..MaxRows), b \in {NULL} \cup (0..MaxRows)}
    \cup {RowsList(idx) : idx \in SeqsUpTo(0..MaxRows, 2)}

ColumnsArgs == {<<VarX>>, <<VarC>>, <<VarX, VarC>>, <<VarC, VarX>>, <<VarXD, VarX>>}

----------------------------------------------------------------------------
(* Specifications *)

InitBackend ==
    /\ connection = 0
    /\ table_name = ""
    /\ table_info = NoTableInfo
    /\ txn = "idle"
    /\ nexec = 0
    /\ ncommit = 0
    /\ cursors = <<>>
    /\ gens = [g \in 1..MaxGen |-> NoGen]
    /\ calls = 0
    /\ ret = NoRet
    /\ cv = CvIdle

(* The backend used by interleaved consumers: queries of the whole table,
   stats and distributions *)
Init == table \in WinTables /\ InitBackend

QueryAny == \E g \in 1..MaxGen : QueryCall(g, AttributesNone, <<>>, RowsNone)

NextAny == \E g \in 1..MaxGen : QueryNext(g)

StatsAny == \E columns \in {<<VarX>>, <<VarC, VarX>>}, where \in {"", "WHERE x >= 2"} :
    Stats(columns, where)

DistributionsAny == \E columns \in {<<VarX>>, <<VarC, VarX>>}, where \in {"", "WHERE x >= 2"} :
    Distributions(columns, where)

Next == Connect \/ QueryAny \/ NextAny \/ StatsAny \/ DistributionsAny

Spec == Init /\ [][Next]_vars

(* One query with every combination of attributes, filters and rows *)
InitWindow == table \in WinTables /\ InitBackend

QueryWindowed ==
    \E a \in AttributesArgs, f \in FiltersArgs, r \in RowsArgs : QueryCall(1, a, f, r)

NextWindowed == QueryNext(1)

NextWindow == Connect \/ QueryWindowed \/ NextWindowed

SpecWindow == InitWindow /\ [][NextWindow]_vars

(* stats over every column list and where clause *)
StatsAll == \E columns \in ColumnsArgs, where \in Wheres : Stats(columns, where)

NextStats == Connect \/ StatsAll

InitStats == table \in SmallTables /\ InitBackend

SpecStats == InitStats /\ [][NextStats]_vars

(* connect on tables of every data type with few and many distinct values *)
InitConnect == table \in ConnTables /\ InitBackend

QueryPlain == QueryCall(1, AttributesNone, <<>>, RowsNone)

StatsPlain == Stats(<<VarC, VarX>>, "")

DistributionsPlain == Distributions(<<VarC, VarX>>, "WHERE x >= 2")

NextConnect == Connect \/ QueryPlain \/ NextWindowed \/ StatsPlain \/ DistributionsPlain

SpecConnect == InitConnect /\ [][NextConnect]_vars

(* k-fold cross-validation of tables of up to MaxCvRows rows *)
InitKFold ==
    /\ table = TableOf(Schema, <<>>)
    /\ InitBackend

KFoldAny == \E y \in SeqsUpTo(1..3, MaxCvRows), k \in 2..MaxCvK : KFoldCall(y, k)

NextKFold == KFoldAny \/ KFoldStep

SpecKFold == InitKFold /\ [][NextKFold]_vars

----------------------------------------------------------------------------
(* Properties *)

Returned(ops) == ret.op \in ops /\ ret.outcome = "return"

(* C1, as stated: when a call to connect, query, stats or distributions
   returns, its statements have been executed and committed; a call to
   query has executed its SELECT before any row is requested. *)
C1_SynchronousCalls ==
    /\ Returned({"connect", "query", "stats", "distributions"}) =>
          nexec > ret.exec0 /\ ncommit > ret.commit0 /\ txn = "idle"
    /\ \A g \in 1..MaxGen : gens[g].state = "created" => gens[g].executed

(* C1, amended: when connect, stats or distributions returns, its
   statements have been executed and committed.  A call to query returns a
   generator and sends nothing: as long as no row has been requested the
   SELECT has not been executed; the request for the first row executes it
   and commits it before a row is yielded or the iteration ends. *)
C1_SynchronousExceptQuery ==
    /\ Returned({"connect", "stats", "distributions"}) =>
          nexec > ret.exec0 /\ ncommit > ret.commit0 /\ txn = "idle"
    /\ Returned({"query"}) =>
          /\ nexec = ret.exec0 /\ ncommit = ret.commit0
          /\ gens[ret.args].state = "created"
    /\ \A g \in 1..MaxGen :
          /\ gens[g].state = "created" => ~gens[g].executed /\ gens[g].cur = 0
          /\ gens[g].state \in {"running", "done"} =>
                gens[g].executed /\ gens[g].cur \in 1..Len(cursors)
    /\ (ret.op = "next" /\ ret.outcome \in {"yield", "StopIteration"}) =>
          /\ gens[ret.args].executed
          /\ nexec > ret.exec0 => ncommit > ret.commit0 /\ txn = "idle"

(* A query has returned and nothing of it was executed while another
   generator is being consumed and a stats or distributions call returned *)
C1_Witness ==
    /\ Returned({"query"})
    /\ gens[2].state = "created"
    /\ gens[1].state = "running"
    /\ calls = 1
    /\ nexec > 3

(* C2: iterating query() with attributes=None, no filters and rows=None
   yields the rows of SELECT * FROM table once each, in order, and ends at
   the first None of fetchone; each generator does so whatever the
   interleaving with other generators, stats and distributions. *)
C2_PassThrough ==
    \A g \in 1..MaxGen :
        (/\ gens[g].attributes = AttributesNone
         /\ gens[g].filters = <<>>
         /\ gens[g].rows = RowsNone
         /\ gens[g].state # "none") =>
            /\ gens[g].state # "raised"
            /\ gens[g].yielded = PySlice(table.rows, 0, Len(gens[g].yielded))
            /\ gens[g].state = "done" => gens[g].yielded = table.rows
            /\ gens[g].state = "running" => Len(gens[g].yielded) >= 1

(* Two results consumed in turns, with a stats or distributions call in
   between: the second is exhausted while the first stands at its first
   row *)
C2_Witness ==
    /\ gens[1].state = "running"
    /\ Len(gens[1].yielded) = 1
    /\ gens[2].state = "done"
    /\ Len(gens[2].yielded) = MaxRows
    /\ calls = 1

(* The rows the where argument of the last stats call selects *)
StatsSelected == RowsWhere(table, WhereConds(ret.args.where))

NullsOf(rows, col) ==
    Cardinality({i \in 1..Len(rows) : rows[i][ColIdx(table, col)] = NULL})

(* C3: stats(columns, where) returns len(columns) entries; entry i
   describes columns[i] and holds 6 values, the first four NULL when the
   column is not continuous; its NULL count and non-NULL count are numbers
   that add up to the number of rows where selects (0 + 0 for no row). *)
C3_StatsEntries ==
    Returned({"stats"}) =>
        /\ Len(ret.value) = Len(ret.args.columns)
        /\ \A i \in 1..Len(ret.value) :
              LET e == ret.value[i]
                  column == ret.args.columns[i]
              IN  /\ Len(e) = StatsWidth
                  /\ column.var_type # "Continuous" =>
                        \A j \in 1..4 : e[j] = NULL
                  /\ e[5] >= 0 /\ e[6] >= 0
                  /\ e[5] = NullsOf(StatsSelected, column.to_sql)
                  /\ e[5] + e[6] = Len(StatsSelected)

(* stats of two columns returned for a where that selects no row *)
C3_Witness ==
    /\ Returned({"stats"})
    /\ Len(ret.args.columns) = 2
    /\ Len(table.rows) > 0
    /\ StatsSelected = <<>>

(* C4: KFold(k) puts every row in exactly one test fold and returns one
   prediction per row at the row's position, also when k does not divide
   the number of rows; the probabilities have one row per table row and
   one column per value of the class variable, even when the training part
   of a fold lacks a class value. *)
C4_KFold ==
    /\ cv.state # "idle" => \A i \in 1..Len(cv.y) : cv.count[i] <= 1
    /\ cv.state = "done" =>
          /\ Len(cv.values) = Len(cv.y)
          /\ Len(cv.probs) = Len(cv.y)
          /\ \A i \in 1..Len(cv.y) :
                /\ cv.count[i] = 1
                /\ cv.values[i] \in Range(cv.y)
                /\ Len(cv.probs[i]) = Cardinality(Range(cv.y))

(* A finished run whose k does not divide the number of rows and one of
   whose folds was trained without a class value of the table *)
C4_Witness ==
    /\ cv.state = "done"
    /\ Len(cv.y) % cv.k # 0
    /\ \E f \in 0..(cv.k - 1) :
          \E j \in 1..Len(ClassValues(cv.y)) :
              Learner(cv.y, TrainIndices(Len(cv.y), cv.k, f))[j] = 0

(* The rows the query of generator g yields when it is given no rows
   argument: same attributes, same filters *)
Unwindowed(g) ==
    Execute(table, QuerySql(QueryFields(gens[g].attributes).fields,
                            gens[g].filters, RowsNone, table.name).sql).result

Started(g) == gens[g].state \in {"running", "done", "raised"}

FieldsGiven(g) == QueryFields(gens[g].attributes).err = ""

(* The generator has yielded a prefix of rows, and all of rows when it is
   exhausted *)
Yields(g, rows) ==
    /\ gens[g].state # "raised"
    /\ gens[g].yielded = PySlice(rows, 0, Len(gens[g].yielded))
    /\ gens[g].state = "done" => gens[g].yielded = rows

(* C5: query with rows=slice(start, stop) yields the rows at positions
   start <= i < stop of the result without rows, an omitted start being 0
   and an omitted stop the number of rows of the table, for every start
   and stop: stop = 0, stop omitted, stop < start (empty result). *)
C5_Slice ==
    (gens[1].rows.kind = "slice" /\ FieldsGiven(1) /\ Started(1)) =>
        LET start == IF gens[1].rows.start = NULL THEN 0 ELSE gens[1].rows.start
            stop == IF gens[1].rows.stop = NULL THEN Len(table.rows)
                    ELSE gens[1].rows.stop
        IN  Yields(1, PySlice(Unwindowed(1), start, stop))

(* A slice with an omitted stop was asked for and the generator raised *)
C5_Witness ==
    /\ gens[1].rows.kind = "slice"
    /\ gens[1].rows.stop = NULL
    /\ gens[1].state = "raised"
    /\ gens[1].err = "AttributeError"

(* C6: query with attributes that hold no attribute raises ValueError('No
   fields selected.') before a statement is sent or committed and leaves
   connection, table_name and table_info as they were; with
   attributes=None the check raises nothing and '*' is selected. *)
C6_NoFieldsSelected ==
    /\ (gens[1].attributes = AttributesOf(<<>>) /\ Started(1)) =>
          /\ gens[1].state = "raised"
          /\ gens[1].err = NoFieldsSelected
          /\ ~gens[1].executed
          /\ ret.op = "next" /\ nexec = ret.exec0 /\ ncommit = ret.commit0
          /\ cursors = <<>>
          /\ txn = "idle"
          /\ connection = 1
          /\ table_name = table.name
          /\ table_info = TableInfo(_get_field_list(table, table.name))
    /\ gens[1].attributes = AttributesNone =>
          /\ gens[1].err # NoFieldsSelected
          /\ gens[1].rows = RowsNone => gens[1].state # "raised"
          /\ gens[1].state \in {"running", "done"} =>
                /\ gens[1].sql[1].fields = <<Star>>
                /\ \A i \in 1..Len(gens[1].yielded) :
                      Len(gens[1].yielded[i]) = Len(table.schema)

(* The generator of a query with an empty attribute list, filters and a
   slice was asked for its first row and raised *)
C6_Witness ==
    /\ gens[1].attributes = AttributesOf(<<>>)
    /\ gens[1].filters # <<>>
    /\ gens[1].rows.kind = "slice"
    /\ gens[1].state = "raised"
    /\ Len(table.rows) > 0

(* C7: query with rows a non-slice collection of indices yields the block
   of rows at positions min(rows)..max(rows) of the result without rows
   (at most max - min + 1 rows), whatever the order, gaps and duplicates:
   positions in between that are not in rows are yielded too, each
   position once. *)
C7_IndexList ==
    (/\ gens[1].rows.kind = "list"
     /\ gens[1].rows.idx # <<>>
     /\ FieldsGiven(1)
     /\ Started(1)) =>
        LET lo == SetMin(Range(gens[1].rows.idx))
            hi == SetMax(Range(gens[1].rows.idx))
        IN  /\ Yields(1, PySlice(Unwindowed(1), lo, hi + 1))
            /\ Len(gens[1].yielded) <= hi - lo + 1

(* rows = [2, 0] on a table of three rows: the row at position 1 is
   yielded as well *)
C7_Witness ==
    /\ gens[1].rows = RowsList(<<2, 0>>)
    /\ gens[1].attributes = AttributesNone
    /\ gens[1].filters = <<>>
    /\ gens[1].state = "done"
    /\ Len(gens[1].yielded) = 3
    /\ gens[1].yielded[2] = table.rows[2]

NotEmpty(f) == f # ""

ClausePos(sql, c) == CHOOSE i \in 1..Len(sql) : sql[i].c = c

(* C8: query applies exactly the non-empty filters: the statement has a
   WHERE clause iff a non-empty filter remains, the remaining filters are
   joined by AND in their order, and WHERE precedes OFFSET/LIMIT, so the
   row window is counted over the filtered rows. *)
C8_Filters ==
    /\ gens[1].state = "raised" =>
          gens[1].err \in {NoFieldsSelected, "AttributeError", "DataError",
                           "ValueError: min() arg is an empty sequence"}
    /\ gens[1].state \in {"running", "done"} =>
          LET sql == gens[1].sql
              names == Range(ClauseNames(sql))
              kept == SelectSeq(gens[1].filters, NotEmpty)
              sel == {i \in 1..Len(table.rows) :
                         \A j \in 1..Len(gens[1].filters) :
                             gens[1].filters[j] # "" =>
                                 CondHolds(table, gens[1].filters[j], table.rows[i])}
              off == IF "OFFSET" \in names THEN ClauseOf(sql, "OFFSET").n ELSE 0
              lim == IF "LIMIT" \in names THEN ClauseOf(sql, "LIMIT").n
                     ELSE Len(table.rows)
              result == cursors[gens[1].cur].result
          IN  /\ ("WHERE" \in names) <=> (kept # <<>>)
              /\ "WHERE" \in names => ClauseOf(sql, "WHERE").conds = kept
              /\ ("WHERE" \in names /\ "OFFSET" \in names) =>
                    /\ ClausePos(sql, "WHERE") < ClausePos(sql, "OFFSET")
                    /\ ClausePos(sql, "WHERE") < ClausePos(sql, "LIMIT")
              /\ Len(result) = Min(lim, Max(0, Cardinality(sel) - off))
              /\ \A r \in 1..Len(result) :
                    \E i \in sel :
                        /\ Cardinality({h \in sel : h < i}) = off + r - 1
                        /\ result[r] = Project(table, sql[1].fields, table.rows[i])
              /\ Yields(1, result)

(* An empty filter and a filter, and a window at position 1: the row
   yielded is the second filtered row, not the second row of the table *)
C8_Witness ==
    /\ Len(table.rows) = 3
    /\ gens[1].filters = <<"", "c = 1">>
    /\ gens[1].rows = RowsList(<<1>>)
    /\ gens[1].attributes = AttributesNone
    /\ gens[1].state = "done"
    /\ gens[1].yielded = <<table.rows[3]>>

(* C9: after connect table_info has one field per column in the order of
   the database, and for every column of every data type values[name] is a
   tuple of at most 20 values: empty for a 'double' column; for a 'char'
   column all its distinct values in ascending order when there are at
   most 20 and empty when there are 21 or more; query, stats and
   distributions leave table_info as connect set it. *)
C9_TableInfo ==
    connection = 1 =>
        /\ table_info = TableInfo(_get_field_list(table, table.name))
        /\ Len(table_info.fields) = Len(table.schema)
        /\ \A j \in 1..Len(table.schema) :
              LET name == table.schema[j].name
                  type == table.schema[j].type
                  values == table_info.values[name]
                  distinct == Range(Column(table, name))
              IN  /\ table_info.field_names[j] = name
                  /\ values.t = "tuple"
                  /\ Len(values.v) <= MaxDistinct
                  /\ HasDouble(type) => values.v = <<>>
                  /\ (HasChar(type) /\ Cardinality(distinct) <= MaxDistinct) =>
                        values.v = SortAsc(distinct)
                  /\ (HasChar(type) /\ Cardinality(distinct) > MaxDistinct) =>
                        values.v = <<>>

(* C9, amended: as C9 for the 'double' and 'char' columns, NULL counting
   as one distinct value that sorts last; for a column of any other data
   type values[name] is None. *)
C9_TableInfoByType ==
    connection = 1 =>
        /\ table_info = TableInfo(_get_field_list(table, table.name))
        /\ Len(table_info.fields) = Len(table.schema)
        /\ \A j \in 1..Len(table.schema) :
              LET name == table.schema[j].name
                  type == table.schema[j].type
                  values == table_info.values[name]
                  distinct == Range(Column(table, name))
              IN  /\ table_info.field_names[j] = name
                  /\ table_info.fields[j] = <<name, type, values>>
                  /\ Len(values.v) <= MaxDistinct
                  /\ HasDouble(type) => values = PyTuple(<<>>)
                  /\ (HasChar(type) /\ Cardinality(distinct) <= MaxDistinct) =>
                        values = PyTuple(SortAsc(distinct))
                  /\ (HasChar(type) /\ Cardinality(distinct) > MaxDistinct) =>
                        values = PyTuple(<<>>)
                  /\ (~HasDouble(type) /\ ~HasChar(type)) => values = PyNone

(* connect has returned on a table whose 'char' column has exactly 20
   distinct values, and a query has been consumed and stats or
   distributions called since *)
C9_Witness ==
    /\ connection = 1
    /\ HasChar(table.schema[2].type)
    /\ Cardinality(Range(Column(table, "c"))) = MaxDistinct
    /\ Len(table_info.values["c"].v) = MaxDistinct
    /\ gens[1].state = "done"
    /\ calls = 1

====
